---- MODULE Spec2Model ----
(***************************************************************************)
(* The room registry of server.py: the module-level dict `games` and the   *)
(* Socket.IO event handlers that read and write it.  Every handler runs   *)
(* to completion before the next event is taken (eventlet, no suspension   *)
(* inside a handler), so each handler is one atomic action.                *)
(***************************************************************************)
EXTENDS Integers, Sequences, FiniteSets, TLC

\* Connection identifiers (request.sid) and room identifiers (the 8 leading
\* characters of a uuid4) that occur in the checked runs.
Sids == {"c1", "c2", "c3"}
RoomIds == {"r1", "r2"}

\* Spec runs the connections of GameSids against the room of GameRooms and
\* accepts a move only on a board that carries fewer than MaxMarks marks.
\* SpecShort is Spec with MaxShortMarks.
\* SpecLobby runs every connection against that room, with MaxLobbyMarks.
\* SpecPlay runs the connections of GameSids through create_game, join_game
\* and make_move alone and plays every board to its end.
\* SpecWinner calls check_winner on every board of 9 cells.
\* SpecTurns has two connections on one room and boards of at most
\* MaxTurnMarks marks.
\* SpecRooms has two connections on two rooms and moves on two cells.
GameSids == {"c1", "c2"}
GameRooms == {"r1"}
MaxMarks == 6
MaxShortMarks == 3
MaxLobbyMarks == 2
MaxTurnMarks == 2

\* The number of cells of a board, line 32.
Cells == 9

\* The value of data.get("index"): the 9 cells and one integer on each side.
Indexes == -1 .. 9

\* Python's None.
None == "None"

VARIABLES
    games,     \* the dict games: room id -> game state, for the registered ids
    out,       \* the messages emitted by the last handler
    wasDone,   \* history: rooms whose status became "done" since their board was last reset
    lastMove,  \* history: symbol of the last accepted move on the room's current board
    cw         \* a call of check_winner: its argument b and what it returned

vars == <<games, out, wasDone, lastMove, cw>>

----------------------------------------------------------------------------
\* A dict {sid: symbol} keeps insertion order: a sequence of entries.

Keys(players) == [i \in 1 .. Len(players) |-> players[i].sid]

HasKey(players, sid) == \E i \in 1 .. Len(players) : players[i].sid = sid

\* players.get(sid)
Get(players, sid) ==
    IF HasKey(players, sid)
    THEN LET i == CHOOSE j \in 1 .. Len(players) : players[j].sid = sid
         IN  players[i].symbol
    ELSE None

\* players[sid] = symbol: an existing key keeps its place, a new one is appended.
SetItem(players, sid, symbol) ==
    IF HasKey(players, sid)
    THEN [i \in 1 .. Len(players) |->
            IF players[i].sid = sid THEN [sid |-> sid, symbol |-> symbol] ELSE players[i]]
    ELSE Append(players, [sid |-> sid, symbol |-> symbol])

\* del players[sid]
DelItem(players, sid) == SelectSeq(players, LAMBDA e : e.sid # sid)

EmptyBoard == [i \in 0 .. Cells - 1 |-> ""]

new_game_state ==
    [board |-> EmptyBoard, turn |-> "X", players |-> <<>>, status |-> "waiting",
     winner |-> None]

wins ==
    << <<0, 1, 2>>, <<3, 4, 5>>, <<6, 7, 8>>,
       <<0, 3, 6>>, <<1, 4, 7>>, <<2, 5, 8>>,
       <<0, 4, 8>>, <<2, 4, 6>> >>

RECURSIVE check_from(_, _)
check_from(b, k) ==
    IF k > Len(wins) THEN None
    ELSE LET a == wins[k][1]
             bidx == wins[k][2]
             c == wins[k][3]
         IN  IF b[a] # "" /\ b[a] = b[bidx] /\ b[bidx] = b[c]
             THEN b[a]
             ELSE check_from(b, k + 1)

\* check_winner with the loop starting at the third triple.
check_winner_late(b) == check_from(b, 3)

check_winner(b) == check_from(b, 1)

\* all(cell != "" for cell in board)
all_filled(b) == \A i \in DOMAIN b : b[i] # ""

\* emit(event, data, room=to): to is a sid or a room id.
Msg(event, to, data) == [event |-> event, to |-> to, data |-> data]

\* emit("error", {"message": m}, room=sid); return
Reject(sid, m) ==
    /\ out' = {Msg("error", sid, [message |-> m])}
    /\ UNCHANGED <<games, wasDone, lastMove>>

\* Store binding every registered key to game as well.
Store_all(room_id, game) == [r \in DOMAIN games \cup {room_id} |-> game]

\* games with room_id bound to game (games[room_id] = game, new key or old).
Store(room_id, game) ==
    [r \in DOMAIN games \cup {room_id} |-> IF r = room_id THEN game ELSE games[r]]

\* del games[r] for every r in rooms
Remove(g, rooms) == [r \in DOMAIN g \ rooms |-> g[r]]

----------------------------------------------------------------------------
\* What cw.ret holds until check_winner has returned.
Pending == "pending"

\* The registry of line 19, before any event.
NoGames ==
    /\ games = << >>
    /\ out = {}
    /\ wasDone = {}
    /\ lastMove = [r \in RoomIds |-> None]

Init ==
    /\ NoGames
    /\ cw = [b |-> EmptyBoard, ret |-> Pending]

\* room_id is the token uuid4 yields; nothing compares it with the registry.
on_create_game(sid, room_id) ==
    LET game == [new_game_state EXCEPT
                    !.players = SetItem(new_game_state.players, sid, "X"),
                    !.status = "waiting"]
    IN  /\ games' = Store(room_id, game)
        /\ out' = {Msg("game_created", sid,
                       [room |-> room_id, symbol |-> "X", state |-> game])}
        /\ wasDone' = wasDone \ {room_id}
        /\ lastMove' = [lastMove EXCEPT ![room_id] = None]

\* on_join_game with the test of line 56 written > 2.
on_join_game_loose(sid, room_id) ==
    IF room_id \notin DOMAIN games
    THEN Reject(sid, "Room not found.")
    ELSE IF Len(games[room_id].players) > 2
    THEN Reject(sid, "Room already full.")
    ELSE LET game == [games[room_id] EXCEPT
                        !.players = SetItem(games[room_id].players, sid, "O"),
                        !.status = "playing"]
         IN  /\ games' = Store(room_id, game)
             /\ out' = {Msg("player_joined", room_id,
                            [room |-> room_id, symbol |-> "O", state |-> game])}
             /\ UNCHANGED <<wasDone, lastMove>>

on_join_game(sid, room_id) ==
    IF room_id \notin DOMAIN games
    THEN Reject(sid, "Room not found.")
    ELSE IF Len(games[room_id].players) >= 2
    THEN Reject(sid, "Room already full.")
    ELSE LET game == [games[room_id] EXCEPT
                        !.players = SetItem(games[room_id].players, sid, "O"),
                        !.status = "playing"]
         IN  /\ games' = Store(room_id, game)
             /\ out' = {Msg("player_joined", room_id,
                            [room |-> room_id, symbol |-> "O", state |-> game])}
             /\ UNCHANGED <<wasDone, lastMove>>

\* Moved with the test for a full board taken before the test for a winner.
Moved_draw_first(game, symbol, idx) ==
    LET board == [game.board EXCEPT ![idx] = symbol]
        winner == check_winner(board)
    IN  IF all_filled(board)
        THEN [game EXCEPT !.board = board, !.status = "done", !.winner = "draw"]
        ELSE IF winner # None
        THEN [game EXCEPT !.board = board, !.status = "done", !.winner = winner]
        ELSE [game EXCEPT !.board = board,
                          !.turn = IF game.turn = "X" THEN "O" ELSE "X"]

\* The game after the accepted move of symbol at idx (lines 100-111).
Moved(game, symbol, idx) ==
    LET board == [game.board EXCEPT ![idx] = symbol]
        winner == check_winner(board)
    IN  IF winner # None
        THEN [game EXCEPT !.board = board, !.status = "done", !.winner = winner]
        ELSE IF all_filled(board)
        THEN [game EXCEPT !.board = board, !.status = "done", !.winner = "draw"]
        ELSE [game EXCEPT !.board = board,
                          !.turn = IF game.turn = "X" THEN "O" ELSE "X"]

\* MoveError without the test of line 96 that the cell is empty.
MoveError_any_cell(sid, room_id, idx) ==
    IF room_id \notin DOMAIN games THEN "Room not found."
    ELSE IF games[room_id].status # "playing" THEN "Game not active."
    ELSE IF Get(games[room_id].players, sid) = None THEN "You are not part of this game."
    ELSE IF games[room_id].turn # Get(games[room_id].players, sid) THEN "Not your turn."
    ELSE IF ~(0 <= idx /\ idx < 9) THEN "Invalid move."
    ELSE None

\* MoveError without the test of line 91 that it is the sender's turn.
MoveError_any_turn(sid, room_id, idx) ==
    IF room_id \notin DOMAIN games THEN "Room not found."
    ELSE IF games[room_id].status # "playing" THEN "Game not active."
    ELSE IF Get(games[room_id].players, sid) = None THEN "You are not part of this game."
    ELSE IF ~(0 <= idx /\ idx < 9) \/ games[room_id].board[idx] # "" THEN "Invalid move."
    ELSE None

\* The error a make_move is answered with, None when the move is accepted
\* (lines 76-98).
MoveError(sid, room_id, idx) ==
    IF room_id \notin DOMAIN games THEN "Room not found."
    ELSE IF games[room_id].status # "playing" THEN "Game not active."
    ELSE IF Get(games[room_id].players, sid) = None THEN "You are not part of this game."
    ELSE IF games[room_id].turn # Get(games[room_id].players, sid) THEN "Not your turn."
    ELSE IF ~(0 <= idx /\ idx < 9) \/ games[room_id].board[idx] # "" THEN "Invalid move."
    ELSE None

on_make_move(sid, room_id, idx) ==
    IF MoveError(sid, room_id, idx) # None
    THEN Reject(sid, MoveError(sid, room_id, idx))
    ELSE LET symbol == Get(games[room_id].players, sid)
             game == Moved(games[room_id], symbol, idx)
         IN  /\ games' = Store(room_id, game)
             /\ out' = {Msg("update_state", room_id, [state |-> game])}
             /\ wasDone' = IF game.status = "done" THEN wasDone \cup {room_id} ELSE wasDone
             /\ lastMove' = [lastMove EXCEPT ![room_id] = symbol]

\* game.update(new_game_state()) replaces every key, "players" too, so the
\* list of sids read on line 127 is the list of the fresh, empty dict.
Restarted(game) ==
    LET fresh == [k \in DOMAIN game |-> new_game_state[k]]
        sids == Keys(fresh.players)
        players == [i \in 1 .. Len(sids) |->
                        [sid |-> sids[i], symbol |-> IF i = 1 THEN "X" ELSE "O"]]
    IN  [fresh EXCEPT !.players = players,
                      !.status = IF Len(sids) = 2 THEN "playing" ELSE "waiting"]

on_restart(sid, room_id) ==
    IF room_id \notin DOMAIN games
    THEN /\ out' = {}
         /\ UNCHANGED <<games, wasDone, lastMove>>
    ELSE LET game == Restarted(games[room_id])
         IN  /\ games' = Store(room_id, game)
             /\ out' = {Msg("update_state", room_id, [state |-> game])}
             /\ wasDone' = wasDone \ {room_id}
             /\ lastMove' = [lastMove EXCEPT ![room_id] = None]

\* on_leave without the del games[room_id] of line 145.
on_leave_keep(sid, room_id) ==
    IF room_id \notin DOMAIN games
    THEN /\ out' = {}
         /\ UNCHANGED <<games, wasDone, lastMove>>
    ELSE LET players == DelItem(games[room_id].players, sid)
         IN  IF Len(players) = 0
             THEN /\ games' = Store(room_id, [games[room_id] EXCEPT !.players = players])
                  /\ out' = {}
                  /\ UNCHANGED <<wasDone, lastMove>>
             ELSE LET game == [games[room_id] EXCEPT
                                  !.players = players, !.status = "waiting"]
                  IN  /\ games' = Store(room_id, game)
                      /\ out' = {Msg("update_state", room_id, [state |-> game])}
                      /\ UNCHANGED <<wasDone, lastMove>>

on_leave(sid, room_id) ==
    IF room_id \notin DOMAIN games
    THEN /\ out' = {}
         /\ UNCHANGED <<games, wasDone, lastMove>>
    ELSE LET players == DelItem(games[room_id].players, sid)
         IN  IF Len(players) = 0
             THEN /\ games' = Remove(games, {room_id})
                  /\ out' = {}
                  /\ wasDone' = wasDone \ {room_id}
                  /\ lastMove' = [lastMove EXCEPT ![room_id] = None]
             ELSE LET game == [games[room_id] EXCEPT
                                  !.players = players, !.status = "waiting"]
                  IN  /\ games' = Store(room_id, game)
                      /\ out' = {Msg("update_state", room_id, [state |-> game])}
                      /\ UNCHANGED <<wasDone, lastMove>>

\* One pass of the loop of lines 155-162 over room_id; the emit of line 158
\* serialises the state before line 162 sets the status.
Disconnected(game, sid) ==
    LET players == DelItem(game.players, sid)
    IN  [sent |-> [game EXCEPT !.players = players],
         kept |-> [game EXCEPT !.players = players,
                               !.status = IF Len(players) = 0 THEN game.status
                                          ELSE "waiting"]]

on_disconnect(sid) ==
    LET hit == {r \in DOMAIN games : HasKey(games[r].players, sid)}
        to_delete == {r \in hit : Len(Disconnected(games[r], sid).kept.players) = 0}
    IN  /\ games' = Remove([r \in DOMAIN games |->
                               IF r \in hit THEN Disconnected(games[r], sid).kept
                               ELSE games[r]], to_delete)
        /\ out' = {Msg("update_state", r, [state |-> Disconnected(games[r], sid).sent])
                     : r \in hit}
        /\ wasDone' = wasDone \ to_delete
        /\ lastMove' = [r \in RoomIds |-> IF r \in to_delete THEN None ELSE lastMove[r]]

\* Number of marks on the board of room_id (0 when the room is not registered).
Marks(room_id) ==
    IF room_id \in DOMAIN games
    THEN Cardinality({i \in DOMAIN games[room_id].board : games[room_id].board[i] # ""})
    ELSE 0

\* One event of a connection of S on a room of R; a move is accepted only on
\* a board with fewer than m marks (a rejected one is always answered).
Event(S, R, m) ==
    \E sid \in S :
        \/ \E room_id \in R : on_create_game(sid, room_id) /\ UNCHANGED cw
        \/ \E room_id \in R : on_join_game(sid, room_id) /\ UNCHANGED cw
        \/ \E room_id \in R, idx \in Indexes :
              /\ MoveError(sid, room_id, idx) # None \/ Marks(room_id) < m
              /\ on_make_move(sid, room_id, idx)
              /\ UNCHANGED cw
        \/ \E room_id \in R : on_restart(sid, room_id) /\ UNCHANGED cw
        \/ \E room_id \in R : on_leave(sid, room_id) /\ UNCHANGED cw
        \/ on_disconnect(sid) /\ UNCHANGED cw

Next == Event(GameSids, GameRooms, MaxMarks)

Spec == Init /\ [][Next]_vars

NextShort == Event(GameSids, GameRooms, MaxShortMarks)

SpecShort == Init /\ [][NextShort]_vars

\* Two connections on one room, boards of at most MaxTurnMarks marks.
NextTurns == Event(GameSids, GameRooms, MaxTurnMarks)

SpecTurns == Init /\ [][NextTurns]_vars

\* The indexes make_move is sent with where two rooms are open: one outside
\* the board and two cells.
RoomsIndexes == {-1, 0, 4}

\* Two connections on two rooms.
NextRooms ==
    \E sid \in GameSids :
        \/ \E room_id \in RoomIds : on_create_game(sid, room_id) /\ UNCHANGED cw
        \/ \E room_id \in RoomIds : on_join_game(sid, room_id) /\ UNCHANGED cw
        \/ \E room_id \in RoomIds, idx \in RoomsIndexes :
              on_make_move(sid, room_id, idx) /\ UNCHANGED cw
        \/ \E room_id \in RoomIds : on_restart(sid, room_id) /\ UNCHANGED cw
        \/ \E room_id \in RoomIds : on_leave(sid, room_id) /\ UNCHANGED cw
        \/ on_disconnect(sid) /\ UNCHANGED cw

SpecRooms == Init /\ [][NextRooms]_vars

NextLobby == Event(Sids, GameRooms, MaxLobbyMarks)

SpecLobby == Init /\ [][NextLobby]_vars

\* Connections that stay: no restart_game, leave_game or disconnect.
NextPlay ==
    \E sid \in GameSids, room_id \in GameRooms :
        \/ on_create_game(sid, room_id) /\ UNCHANGED cw
        \/ on_join_game(sid, room_id) /\ UNCHANGED cw
        \/ \E idx \in Indexes : on_make_move(sid, room_id, idx) /\ UNCHANGED cw

SpecPlay == Init /\ [][NextPlay]_vars

\* Every list of 9 cells, each "", "X" or "O".
Boards == [0 .. Cells - 1 -> {"", "X", "O"}]

InitWinner ==
    /\ NoGames
    /\ cw \in [b : Boards, ret : {Pending}]

\* winner = check_winner(b), as line 103 calls it.
call_check_winner ==
    /\ cw.ret = Pending
    /\ cw' = [cw EXCEPT !.ret = check_winner(cw.b)]
    /\ UNCHANGED <<games, out, wasDone, lastMove>>

SpecWinner == InitWinner /\ [][call_check_winner]_vars

----------------------------------------------------------------------------
\* The step is a make_move of sid on room_id at idx that the handler accepts.
Accepted(sid, room_id, idx) ==
    MoveError(sid, room_id, idx) = None /\ on_make_move(sid, room_id, idx)

\* The rooms whose board the step changes.  An accepted make_move marks an
\* empty cell, so its room is one of them.
Touched ==
    {r \in DOMAIN games \cap DOMAIN games' : games'[r].board # games[r].board}

\* The cells of the board of r that the step changes; the cell of an accepted
\* make_move is one of them.
Changed(r) == {i \in 0 .. 8 : games'[r].board[i] # games[r].board[i]}

\* The only message of the step is the error m sent to sid.
OnlyError(sid, m) == out' = {Msg("error", sid, [message |-> m])}

Other(symbol) == IF symbol = "X" THEN "O" ELSE "X"

\* The number of entries of players that hold symbol.
Holders(players, symbol) ==
    Cardinality({i \in 1 .. Len(players) : players[i].symbol = symbol})

\* C1: a restart_game on a registered room keeps the connections that were in
\* players: afterwards the board is 9 empty cells, turn is X, winner is unset,
\* the first connection holds X and the second O, and status is playing when
\* two connections were attached and waiting when one was.
C1_RestartKeepsPlayers ==
    [][\A sid \in Sids, r \in RoomIds :
          (r \in DOMAIN games /\ on_restart(sid, r)) =>
              LET before == games[r].players
                  after == games'[r]
              IN  /\ after.board = [i \in 0 .. 8 |-> ""]
                  /\ after.turn = "X"
                  /\ after.winner = None
                  /\ Keys(after.players) = Keys(before)
                  /\ \A i \in 1 .. Len(after.players) :
                        after.players[i].symbol = IF i = 1 THEN "X" ELSE "O"
                  /\ Len(before) = 2 => after.status = "playing"
                  /\ Len(before) = 1 => after.status = "waiting"]_vars

\* C2: in every reachable state no room has two connections holding the same
\* symbol: X is held by at most one connection and O by at most one.
C2_SymbolsUnique ==
    \A r \in DOMAIN games :
        /\ Holders(games[r].players, "X") <= 1
        /\ Holders(games[r].players, "O") <= 1

\* C3: in every reachable state a room whose status is playing has exactly 2
\* entries in players.
C3_PlayingHasTwo ==
    \A r \in DOMAIN games :
        games[r].status = "playing" => Len(games[r].players) = 2

\* C4: in every reachable state of every room, winner is set (X, O or draw)
\* if and only if status is done.
C4_WinnerIffDone ==
    \A r \in DOMAIN games :
        games[r].winner \in {"X", "O", "draw"} <=> games[r].status = "done"

\* C5: once a room's status has become done, no make_move on that room is
\* accepted until a restart_game is applied to the room.
C5_NoMoveAfterDone ==
    [][\A r \in wasDone \cap Touched : \A sid \in Sids, idx \in Changed(r) :
          ~Accepted(sid, r, idx)]_vars

\* C6: a join_game on a room that already has 2 players is answered with the
\* room-full error, sent to the requester alone, and leaves the registry
\* unchanged; players has at most 2 entries in every reachable state.
C6_FullRoomRejectsJoin ==
    [][/\ \A sid \in Sids, r \in RoomIds :
             (/\ r \in DOMAIN games
              /\ Len(games[r].players) >= 2
              /\ on_join_game(sid, r)) =>
                 games' = games /\ OnlyError(sid, "Room already full.")
       /\ \A r \in DOMAIN games' : Len(games'[r].players) <= 2]_vars

\* A connection outside a room of 2 players has been refused with room-full.
C6_Witness ==
    \E sid \in Sids, r \in DOMAIN games :
        /\ Len(games[r].players) = 2
        /\ ~HasKey(games[r].players, sid)
        /\ out = {Msg("error", sid, [message |-> "Room already full."])}

\* C7: when leave_game or disconnect removes the last player of a room, the
\* room leaves the registry; a join_game or make_move naming a room of the run
\* that is not registered is answered with room-not-found and changes nothing,
\* and only a create_game registers the id again.
C7_EmptyRoomDeleted ==
    [][/\ \A sid \in Sids, r \in RoomIds :
             (/\ r \in DOMAIN games
              /\ Keys(games[r].players) = <<sid>>
              /\ (on_leave(sid, r) \/ on_disconnect(sid))) =>
                 r \notin DOMAIN games'
       /\ \A sid \in Sids, r \in GameRooms \ DOMAIN games :
             /\ on_join_game(sid, r) =>
                   games' = games /\ OnlyError(sid, "Room not found.")
             /\ \A idx \in Indexes :
                   on_make_move(sid, r, idx) =>
                       games' = games /\ OnlyError(sid, "Room not found.")
       /\ \A r \in DOMAIN games' \ DOMAIN games :
             \E sid \in Sids : on_create_game(sid, r)]_vars

\* The disconnect of its last player has just taken a room out of the registry.
C7_Witness ==
    \E r \in RoomIds \ DOMAIN games :
        \E m \in out :
            /\ m.event = "update_state"
            /\ m.to = r
            /\ m.data.state.players = << >>

\* C8: after an accepted make_move that does not end the game, turn is the
\* symbol opposite to the mover's, and between two resets of a board no two
\* successive accepted moves are made with the same symbol.
C8_TurnAlternates ==
    [][\A r \in Touched : \A sid \in Sids, idx \in Changed(r) :
          Accepted(sid, r, idx) =>
              LET symbol == Get(games[r].players, sid)
              IN  /\ games'[r].status # "done" => games'[r].turn = Other(symbol)
                  /\ lastMove[r] # symbol]_vars

\* The step is a join_game, make_move, leave_game or disconnect.
GameEvent ==
    \E sid \in Sids :
        \/ \E r \in RoomIds : on_join_game(sid, r)
        \/ \E r \in RoomIds, idx \in Indexes : on_make_move(sid, r, idx)
        \/ \E r \in RoomIds : on_leave(sid, r)
        \/ on_disconnect(sid)

\* C9: a step that changes an occupied cell of a room's board is no
\* join_game, make_move, leave_game or disconnect, and an accepted make_move
\* changes exactly the cell at its index, from empty to the mover's symbol.
C9_CellsOnlyFill ==
    [][/\ \A r \in DOMAIN games \cap DOMAIN games' :
             (\E i \in 0 .. 8 :
                 games[r].board[i] # "" /\ games'[r].board[i] # games[r].board[i])
                 => ~GameEvent
       /\ \A r \in Touched, sid \in Sids, idx \in Indexes :
             Accepted(sid, r, idx) =>
                 /\ idx \in 0 .. 8
                 /\ games[r].board[idx] = ""
                 /\ games'[r].board[idx] = Get(games[r].players, sid)
                 /\ \A i \in (0 .. 8) \ {idx} :
                       games'[r].board[i] = games[r].board[i]]_vars

\* A move has just been accepted on a board that already carried marks.
C9_Witness ==
    \E r \in DOMAIN games :
        /\ Marks(r) >= 2
        /\ lastMove[r] # None
        /\ out = {Msg("update_state", r, [state |-> games[r]])}

\* The rows, columns and diagonals of the board.
Lines ==
    {{3 * k, 3 * k + 1, 3 * k + 2} : k \in 0 .. 2}
        \cup {{k, k + 3, k + 6} : k \in 0 .. 2}
        \cup {{0, 4, 8}, {2, 4, 6}}

HasTriple(b) ==
    \E L \in Lines : \E symbol \in {"X", "O"} : \A i \in L : b[i] = symbol

\* C10: after an accepted make_move, if the board has a uniform triple the
\* status is done and winner is the mover's symbol (also when the move filled
\* the ninth cell); otherwise if all 9 cells are filled the status is done and
\* winner is draw; otherwise the status is playing and winner is unset.
C10_MoveOutcome ==
    [][\A r \in Touched : \A sid \in Sids, idx \in Changed(r) :
          Accepted(sid, r, idx) =>
              LET symbol == Get(games[r].players, sid)
                  after == games'[r]
              IN  IF HasTriple(after.board)
                  THEN after.status = "done" /\ after.winner = symbol
                  ELSE IF \A i \in 0 .. 8 : after.board[i] # ""
                  THEN after.status = "done" /\ after.winner = "draw"
                  ELSE after.status = "playing" /\ after.winner = None]_vars

\* The ninth mark has just ended a game as a draw.
C10_Witness ==
    \E r \in DOMAIN games :
        /\ games[r].status = "done"
        /\ games[r].winner = "draw"
        /\ Marks(r) = 9
        /\ out = {Msg("update_state", r, [state |-> games[r]])}

\* The symbols a line of the board can be uniform in.
Symbols == {"X", "O"}

Uniform(b, L, symbol) == \A i \in L : b[i] = symbol

\* C11: for every board of 9 cells over "", "X", "O", check_winner returns a
\* symbol exactly when some row, column or diagonal holds three equal non-empty
\* cells, the symbol returned is the one on such a line, and it returns None
\* for the empty board and for every board without such a line.
C11_CheckWinner ==
    cw.ret # Pending =>
        /\ cw.ret \in Symbols <=> HasTriple(cw.b)
        /\ cw.ret \in Symbols => \E L \in Lines : Uniform(cw.b, L, cw.ret)
        /\ ~HasTriple(cw.b) => cw.ret = None
        /\ cw.b = EmptyBoard => cw.ret = None

\* check_winner returned O on a board that also has a line of X.
C11_Witness ==
    /\ cw.ret = "O"
    /\ \E L \in Lines : Uniform(cw.b, L, "X")

\* The six situations a make_move is rejected in.
Rejectable(sid, room_id, idx) ==
    \/ room_id \notin DOMAIN games
    \/ games[room_id].status # "playing"
    \/ \A i \in 1 .. Len(games[room_id].players) : games[room_id].players[i].sid # sid
    \/ \E i \in 1 .. Len(games[room_id].players) :
          /\ games[room_id].players[i].sid = sid
          /\ games[room_id].players[i].symbol # games[room_id].turn
    \/ idx \notin 0 .. 8
    \/ games[room_id].board[idx] # ""

\* The handler sent error messages to sid and nothing else.
ErrorsOnlyTo(sid) ==
    /\ out' # {}
    /\ \A msg \in out' : msg.event = "error" /\ msg.to = sid

\* C12: a make_move that is rejected (room not found, game not active, sender
\* not a player, not the sender's turn, index outside 0..8, cell occupied)
\* leaves the whole registry unchanged and sends only an error message to the
\* requester, no broadcast.
C12_RejectedMoveIsInert ==
    [][\A sid \in GameSids :
          games' # games \/ ~ErrorsOnlyTo(sid) =>
              \A room_id \in GameRooms, idx \in Indexes :
                  Rejectable(sid, room_id, idx) => ~on_make_move(sid, room_id, idx)]_vars

\* A move on an occupied cell of a board in play has just been rejected.
C12_Witness ==
    /\ "r1" \in DOMAIN games
    /\ games["r1"].status = "playing"
    /\ Marks("r1") >= 1
    /\ \E sid \in GameSids : out = {Msg("error", sid, [message |-> "Invalid move."])}

\* The handler answered sid with the error m, among the messages it sent.
ErrorTo(sid, m) == Msg("error", sid, [message |-> m]) \in out'

\* C13: a make_move on an existing room by a connection with no entry in the
\* room's players is answered "You are not part of this game." whatever the
\* status of the room, and "Game not active.", "Not your turn." and
\* "Invalid move." are only reported to players of the room.
C13_NonPlayerNotInGame ==
    [][\A sid \in GameSids, room_id \in GameRooms \cap DOMAIN games, idx \in Indexes :
          on_make_move(sid, room_id, idx) /\ ~HasKey(games[room_id].players, sid) =>
              /\ OnlyError(sid, "You are not part of this game.")
              /\ ~ErrorTo(sid, "Game not active.")
              /\ ~ErrorTo(sid, "Not your turn.")
              /\ ~ErrorTo(sid, "Invalid move.")]_vars

\* The entries of players other than the one of sid, in their order.
Without(players, sid) == SelectSeq(players, LAMBDA e : e.sid # sid)

\* C14: when leave_game or disconnect removes a player from a room where
\* another player remains, the room's status becomes waiting and the
\* update_state broadcast to the room carries the updated state: players
\* without the leaver and status waiting.
C14_LeaverBroadcast ==
    [][\A sid \in GameSids, r \in GameRooms \cap DOMAIN games :
          /\ HasKey(games[r].players, sid)
          /\ Len(games[r].players) >= 2
          /\ on_leave(sid, r) \/ on_disconnect(sid)
          => /\ r \in DOMAIN games'
             /\ games'[r].status = "waiting"
             /\ games'[r].players = Without(games[r].players, sid)
             /\ out' = {Msg("update_state", r, [state |-> games'[r]])}]_vars

\* C15: when leave_game or disconnect removes the last player of a room, no
\* update_state and no other message is sent to that room.
C15_LastLeaverSilent ==
    [][\A sid \in GameSids, r \in GameRooms \cap DOMAIN games :
          /\ HasKey(games[r].players, sid)
          /\ Len(games[r].players) = 1
          /\ on_leave(sid, r) \/ on_disconnect(sid)
          => \A msg \in out' : msg.to # r]_vars

\* The room create_game is expected to register for the creator sid.
CreatedFor(sid) ==
    [board |-> [i \in 0 .. 8 |-> ""], turn |-> "X", status |-> "waiting",
     winner |-> None, players |-> <<[sid |-> sid, symbol |-> "X"]>>]

\* C16: create_game registers the room under an id that was not in the
\* registry before, so no existing room is replaced or altered; the new room
\* has an empty board, turn X, status waiting, no winner and the creator alone
\* in players with X; game_created is sent to the creator only.
C16_CreateIsFresh ==
    [][\A sid \in GameSids, room_id \in GameRooms :
          on_create_game(sid, room_id) =>
              /\ room_id \notin DOMAIN games
              /\ \A r \in DOMAIN games : r \in DOMAIN games' /\ games'[r] = games[r]
              /\ games'[room_id] = CreatedFor(sid)
              /\ \A msg \in out' : msg.event = "game_created" /\ msg.to = sid
              /\ out' # {}]_vars

\* C17: in every reachable state a room whose status is waiting has fewer
\* than 2 entries in players, also after a leave_game naming the room sent by
\* a connection that is not one of its players.
C17_WaitingBelowTwo ==
    \A r \in DOMAIN games : games[r].status = "waiting" => Len(games[r].players) < 2

\* The rooms the step registered, deleted or altered.
Altered ==
    {r \in RoomIds :
        IF r \in DOMAIN games /\ r \in DOMAIN games'
        THEN games'[r] # games[r]
        ELSE r \in DOMAIN games \/ r \in DOMAIN games'}

\* The rooms sid is a player of.
RoomsOf(sid) == {r \in DOMAIN games : \E i \in 1 .. Len(games[r].players) :
                                          games[r].players[i].sid = sid}

\* C18: join_game, make_move, restart_game and leave_game naming room r leave
\* every other room unchanged; disconnect of a connection changes only rooms
\* it is a player of, so when it is a player of no room the disconnect changes
\* nothing and sends nothing, and after a disconnect the connection is a
\* player of no room (a repeated disconnect is a no-op).
C18_OtherRoomsUntouched ==
    [][/\ \A r \in Altered : \A sid \in GameSids :
             /\ \A room_id \in RoomIds \ {r} :
                   /\ ~on_join_game(sid, room_id)
                   /\ \A idx \in RoomsIndexes : ~on_make_move(sid, room_id, idx)
                   /\ ~on_restart(sid, room_id)
                   /\ ~on_leave(sid, room_id)
             /\ r \notin RoomsOf(sid) => ~on_disconnect(sid)
       /\ \A sid \in GameSids :
             on_disconnect(sid) =>
                 /\ \A r \in DOMAIN games' : ~HasKey(games'[r].players, sid)
                 /\ RoomsOf(sid) = {} => games' = games /\ out' = {}]_vars

\* Both rooms are open, the last event was answered in r1 alone and r2
\* holds a mark and two players.
C18_Witness ==
    /\ DOMAIN games = RoomIds
    /\ out # {}
    /\ \A msg \in out : msg.event = "update_state" /\ msg.to = "r1"
    /\ Marks("r2") >= 1
    /\ Len(games["r2"].players) = 2

\* C19: in every reachable state every room of the registry has at least one
\* entry in players, after any sequence of events, restart_game included.
C19_RegisteredRoomHasPlayer ==
    \A r \in DOMAIN games : Len(games[r].players) >= 1

\* C20: in every reachable state where a room is playing, some connection in
\* players holds the symbol equal to turn and the board has an empty cell, so
\* some make_move would be accepted.
C20_PlayingCanProgress ==
    \A r \in DOMAIN games :
        games[r].status = "playing" =>
            /\ \E i \in 1 .. Len(games[r].players) :
                  games[r].players[i].symbol = games[r].turn
            /\ \E idx \in 0 .. 8 : games[r].board[idx] = ""

====
